---- MODULE Spec2Model ----
(***************************************************************************)
(* Model of usernamechecker.py: the rule evaluator (decide_with_rules),    *)
(* the single-attempt fetcher (fetch), the retrying probe (check_one) and  *)
(* the scheduler (run) with its asyncio.Semaphore gate and asyncio.gather. *)
(*                                                                         *)
(* Python values: None is the string "None"; the booleans True / False of  *)
(* the tri-state verdict are the strings "True" / "False", so that they    *)
(* can be compared with "None".  Texts are sequences of one-character     *)
(* strings; an Optional[str] is <<>> for None and <<text>> for a text, and *)
(* so is every variable that holds a record only from some step on.       *)
(* What a call ends with is a record [raise |-> ...] whose raise field is  *)
(* "None" when the call returned and the exception's description when it  *)
(* raised.                                                                 *)
(***************************************************************************)
EXTENDS Integers, Sequences, FiniteSets, TLC

VARIABLES
    sites,        \* run's parameter `sites`: the requested site identifiers
    concurrency,  \* run's parameter `concurrency`
    retries,      \* run's parameter `retries`
    pc,           \* per task: where the coroutine task(name) stands
    attempt,      \* per task: check_one's local `attempt`
    last_status,  \* per task: check_one's local `last_status`
    last_body,    \* per task: check_one's local `last_body`
    fetches,      \* per task: number of fetch() calls made so far (history)
    backoffs,     \* per task: the backoff sleeps started so far, in tenths of a second (history)
    outcome,      \* per task: what the task ended with: a result record or a raised exception
    sem_value,    \* asyncio.Semaphore._value: free permits
    waiters,      \* asyncio.Semaphore._waiters: tasks blocked in acquire, FIFO
    gather_exc,   \* the exception set on the future of gather, "None" while there is none
    overtaken,    \* a task has finished before a task listed before it (history)
    run_state,    \* the coroutine run(): "gathering", "returned" or "raised"
    report,       \* <<what run returned (the report) or raised>>, <<>> before
    args,         \* <<the arguments of a call made on its own>>: site, cfg, status, body
    ret           \* <<what that call evaluated and ended with>>, <<>> before the call

run_vars == <<sites, concurrency, retries, pc, attempt, last_status, last_body, fetches,
              backoffs, outcome, sem_value, waiters, gather_exc, overtaken, run_state,
              report>>

call_vars == <<args, ret>>

vars == <<run_vars, call_vars>>

----------------------------------------------------------------------------
(* Bounds of the model *)

MaxSites == 2
MaxConcurrency == 2
MaxRetries == 1

----------------------------------------------------------------------------
(* Values *)

None == "None"

username == <<"u", "s", "r">>

\* The text limit of fetch: text[:200_000]
BODY_CAP == 200000

\* The placeholder of a url template
PLACEHOLDER == "{username}"

\* str.lower() on the characters the model's texts are made of
Lower(c) == IF c = "N" THEN "n" ELSE IF c = "O" THEN "o" ELSE c

LowerText(t) == [k \in 1..Len(t) |-> Lower(t[k])]

RECURSIVE Concat(_)
Concat(ss) == IF ss = <<>> THEN <<>> ELSE Head(ss) \o Concat(Tail(ss))

\* Faulty variant of format: the template is returned as it is
format_unsubstituted(template, uname) == template

\* cfg["url"].format(username=username): every placeholder segment of the
\* template is replaced by the username, the other segments are kept.
format(template, uname) ==
    Concat([k \in 1..Len(template) |->
              IF template[k] = PLACEHOLDER THEN uname ELSE <<template[k]>>])

\* re.compile of a pattern made of the model's characters: an unbalanced "("
\* is the malformed pattern, every other pattern is a literal.
re_compiles(pat) == \A k \in 1..Len(pat) : pat[k] # "("

\* Faulty variant of re_search: the pattern is matched at the start of the
\* text only (re.match)
re_search_anchored(pat, text) ==
    IF \E k \in 1..Len(pat) : pat[k] = "(" THEN "re.error"
    ELSE IF Len(pat) <= Len(text)
            /\ LowerText(SubSeq(text, 1, Len(pat))) = LowerText(pat)
         THEN "True" ELSE None

\* re.search(pat, body, flags=re.IGNORECASE | re.DOTALL): the literal is
\* searched anywhere in the body, ignoring case; a malformed pattern raises.
\* Its value is "True" for a match object, "None" for no match and RE_ERROR
\* when re.error is raised.
RE_ERROR == "re.error"

re_search(pat, text) ==
    IF ~re_compiles(pat) THEN RE_ERROR
    ELSE IF \E k \in 0..(Len(text) - Len(pat)) :
               LowerText(SubSeq(text, k + 1, k + Len(pat))) = LowerText(pat)
         THEN "True" ELSE None

\* Optional[str]
NoBody == <<>>
Some(text) == <<text>>

\* A variable that holds nothing yet
Nothing == <<>>

----------------------------------------------------------------------------
(* The catalog SITES *)

EmptyRules == [k \in {} |-> {}]

\* dict.get(key, {})
Get(cfg, key) == IF key \in DOMAIN cfg THEN cfg[key] ELSE EmptyRules

\* An entry of build_sites_from_pairs, and of load_sherlock_sites for
\* errorType == "status_code"
StatusEntry(url) ==
    [url |-> url,
     exists_if |-> [status_in |-> {200, 301, 302}],
     not_found_if |-> [status_in |-> {404}]]

\* An entry of load_sherlock_sites for errorType == "message"
MessageEntry(url, errorMsg) ==
    [url |-> url,
     exists_if |-> [status_in |-> {200, 301, 302}],
     not_found_if |-> [body_regex |-> errorMsg]]

\* The catalog: one preset site and two Sherlock message sites, one of them
\* with an errorMsg that is no valid regular expression.
SiteNames == {"github", "forum", "wiki"}

SITES ==
    [name \in SiteNames |->
       CASE name = "github" -> StatusEntry(<<"g", "/", PLACEHOLDER>>)
         [] name = "forum"  -> MessageEntry(<<"f", "/", PLACEHOLDER>>, <<"n", "o">>)
         [] name = "wiki"   -> MessageEntry(<<PLACEHOLDER, ".", "w">>, <<"(">>)]

----------------------------------------------------------------------------
(* decide_with_rules *)

\* "True", "None", or RE_ERROR when re.search raises
decide_with_rules(status, body, rules) ==
    IF DOMAIN rules = {} THEN None
    ELSE IF "status_in" \in DOMAIN rules /\ status \in rules.status_in THEN "True"
    ELSE IF body # NoBody /\ "body_regex" \in DOMAIN rules
         THEN re_search(rules.body_regex, body[1])
         ELSE None

----------------------------------------------------------------------------
(* fetch *)

\* What the network does to one GET: the connection and the status line
\* (conn), the text the server sends (text; a 404 or 500 page carries the
\* not-found message), and for a 200 the reading of it (read).  "timeout" is
\* asyncio.TimeoutError, "client_error" an aiohttp.ClientError, "boom" any
\* other exception.
Statuses == {200, 404, 500}
Texts == {<<"N", "O">>, <<"o", "k">>}
Failures == {"timeout", "client_error", "boom"}

NetEvents ==
    [conn : Failures, status : {0}, read : {"ok"}, text : {<<>>}]
    \cup [conn : {"ok"}, status : {200}, read : {"ok"}, text : Texts]
    \cup [conn : {"ok"}, status : Statuses \ {200}, read : {"ok"}, text : {<<"N", "O">>}]
    \cup [conn : {"ok"}, status : {200}, read : Failures, text : {<<>>}]

Returned(status, body) == [raise |-> None, status |-> status, body |-> body]
Raised(exc) == [raise |-> exc, status |-> 0, body |-> NoBody]

\* Faulty variant of fetch_except: only the timeout is handled
fetch_except_timeout_only(failure) ==
    IF failure = "timeout" THEN Returned(0, NoBody) ELSE Raised(failure)

\* The exception handlers of fetch
fetch_except(failure) ==
    IF failure \in {"timeout", "client_error"} THEN Returned(0, NoBody)
    ELSE Raised(failure)

\* Faulty variant of fetch: the body is read whatever the status
fetch_body_always(ev) ==
    IF ev.conn # "ok" THEN fetch_except(ev.conn)
    ELSE IF ev.read # "ok" THEN fetch_except(ev.read)
    ELSE Returned(ev.status, Some(ev.text))

\* Faulty variant of fetch: the text of a 200 is returned whole
fetch_uncapped(ev) ==
    IF ev.conn # "ok" THEN fetch_except(ev.conn)
    ELSE IF ev.status = 200
         THEN IF ev.read # "ok" THEN fetch_except(ev.read)
              ELSE Returned(200, Some(ev.text))
         ELSE Returned(ev.status, NoBody)

fetch(ev) ==
    IF ev.conn # "ok" THEN fetch_except(ev.conn)
    ELSE IF ev.status = 200
         THEN IF ev.read # "ok" THEN fetch_except(ev.read)
              ELSE Returned(200, Some(IF Len(ev.text) > BODY_CAP
                                      THEN SubSeq(ev.text, 1, BODY_CAP)
                                      ELSE ev.text))
         ELSE Returned(ev.status, NoBody)

----------------------------------------------------------------------------
(* check_one, after its retry loop *)

\* Faulty variant of verdict: the not-found rule is looked at first
verdict_swapped(exists, not_found) ==
    IF not_found = "True" THEN "True"
    ELSE IF exists = "True" THEN "False"
    ELSE None

verdict(exists, not_found) ==
    IF exists = "True" THEN "False"
    ELSE IF not_found = "True" THEN "True"
    ELSE None

\* What check_one ends with for the last status and body: the result record,
\* or the exception of a rule evaluation.
check_one_end(site, uname, cfg, status, body) ==
    LET url == format(cfg.url, uname)
        exists == decide_with_rules(status, body, Get(cfg, "exists_if"))
        not_found == decide_with_rules(status, body, Get(cfg, "not_found_if"))
    IN  IF exists = RE_ERROR THEN [kind |-> "exception", value |-> RE_ERROR]
        ELSE IF not_found = RE_ERROR THEN [kind |-> "exception", value |-> RE_ERROR]
        ELSE [kind |-> "result",
              value |-> [site |-> site, url |-> url, status |-> status,
                         available |-> verdict(exists, not_found)]]

\* Faulty variant of loop_continues: one attempt short
loop_continues_short(att, maxRetries) == att < maxRetries

\* Faulty variant of loop_breaks: a server error is retried like a
\* transport failure
loop_breaks_5xx(status) == status # 0 /\ status < 500

\* `while attempt <= retries`
loop_continues(att, maxRetries) == att <= maxRetries

\* `if status != 0: break`
loop_breaks(status) == status # 0

\* asyncio.sleep(0.4 * (attempt + 1)), in tenths of a second
backoff_delay(att) == 4 * (att + 1)

----------------------------------------------------------------------------
(* The gate: asyncio.Semaphore(concurrency) *)

\* Faulty variant of sem_locked: acquire never waits
sem_locked_never(value, ws) == FALSE

\* Semaphore.locked(): no permit can be taken at once
sem_locked(value, ws) == value = 0 \/ ws # <<>>

\* Semaphore.release(): the permit goes to the first waiter when there is
\* one (woken is that task, 0 when there is none)
sem_release(value, ws) ==
    IF ws = <<>> THEN [value |-> value + 1, waiters |-> ws, woken |-> 0]
    ELSE [value |-> value, waiters |-> Tail(ws), woken |-> Head(ws)]

\* Faulty variant of sem_aexit: the permit is given back on a return only
sem_aexit_leaky(exc, value, ws) ==
    IF exc THEN [value |-> value, waiters |-> ws, woken |-> 0]
    ELSE sem_release(value, ws)

\* The exit of `async with sem`, on a return (exc = FALSE) and on an
\* exception (exc = TRUE)
sem_aexit(exc, value, ws) == sem_release(value, ws)

----------------------------------------------------------------------------
(* The tasks of run *)

Tasks == 1..Len(sites)

\* Every coroutine task(s) of the gather has run up to its first suspension:
\* the event loop runs the tasks it was handed, in their order, before any
\* timer or response
AllStarted == \A i \in Tasks : pc[i] # "new"

Finished(i) == pc[i] \in {"done", "raised", "cancelled"}

\* The tasks inside `async with sem`
Holders == {i \in Tasks : pc[i] \in {"fetch", "backoff"}}

\* Faulty variant of gather_results: the results in the reverse order
gather_results_reversed(outs) ==
    [k \in 1..Len(outs) |-> outs[Len(outs) + 1 - k].value]

\* asyncio.gather(*(task(s) for s in sites)): the results in the order of
\* the awaitables
gather_results(outs) == [k \in 1..Len(outs) |-> outs[k].value]

\* gather's callback for a finished task (return_exceptions is not set):
\* the first exception raised by a task is set on the future run awaits
gather_done(exc, end) ==
    IF exc = None /\ end.kind = "exception" THEN end.value ELSE exc

Pending == [kind |-> "pending", value |-> None]

\* Task i leaves `async with sem` with `end` (the result of check_one or an
\* exception), and the task that gets its permit enters check_one and calls
\* fetch.
Leave(i, end) ==
    LET raised == end.kind = "exception"
        s == sem_aexit(raised, sem_value, waiters)
    IN  /\ pc' = [k \in Tasks |->
                    IF k = i THEN (IF raised THEN "raised" ELSE "done")
                    ELSE IF k = s.woken THEN "fetch" ELSE pc[k]]
        /\ fetches' = [k \in Tasks |->
                         IF k = s.woken THEN fetches[k] + 1 ELSE fetches[k]]
        /\ outcome' = [outcome EXCEPT ![i] = end]
        /\ sem_value' = s.value
        /\ waiters' = s.waiters
        /\ gather_exc' = gather_done(gather_exc, end)
        /\ overtaken' = (overtaken \/ \E j \in Tasks : j < i /\ ~Finished(j))

SiteLists == UNION {[1..n -> SiteNames] : n \in 1..MaxSites}

Init ==
    /\ sites \in SiteLists
    /\ concurrency \in 1..MaxConcurrency
    /\ retries \in 0..MaxRetries
    /\ pc = [i \in Tasks |-> "new"]
    /\ attempt = [i \in Tasks |-> 0]
    /\ last_status = [i \in Tasks |-> 0]
    /\ last_body = [i \in Tasks |-> NoBody]
    /\ fetches = [i \in Tasks |-> 0]
    /\ backoffs = [i \in Tasks |-> <<>>]
    /\ outcome = [i \in Tasks |-> Pending]
    /\ sem_value = concurrency
    /\ waiters = <<>>
    /\ gather_exc = None
    /\ overtaken = FALSE
    /\ run_state = "gathering"
    /\ report = Nothing
    /\ args = Nothing
    /\ ret = Nothing

\* task(name) starts: `async with sem` takes a permit or waits; with the
\* permit check_one is entered (attempt = 0 <= retries) and fetch is called.
TaskStart(i) ==
    /\ pc[i] = "new"
    /\ \A j \in Tasks : j < i => pc[j] # "new"
    /\ IF sem_locked(sem_value, waiters)
       THEN /\ pc' = [pc EXCEPT ![i] = "waiting"]
            /\ waiters' = Append(waiters, i)
            /\ UNCHANGED <<sem_value, fetches>>
       ELSE /\ pc' = [pc EXCEPT ![i] = "fetch"]
            /\ sem_value' = sem_value - 1
            /\ fetches' = [fetches EXCEPT ![i] = @ + 1]
            /\ UNCHANGED waiters
    /\ UNCHANGED <<sites, concurrency, retries, attempt, last_status, last_body,
                   backoffs, outcome, gather_exc, overtaken, run_state, report>>
    /\ UNCHANGED call_vars

\* The fetch of task i ends on the network event ev: an exception leaves the
\* task; a non-zero status breaks the loop and check_one ends; status 0
\* starts the backoff sleep.
FetchEnds(i, ev) ==
    /\ run_state = "gathering"
    /\ AllStarted
    /\ pc[i] = "fetch"
    /\ LET r == fetch(ev)
       IN  IF r.raise # None
           THEN /\ Leave(i, [kind |-> "exception", value |-> r.raise])
                /\ UNCHANGED <<last_status, last_body, backoffs>>
           ELSE /\ last_status' = [last_status EXCEPT ![i] = r.status]
                /\ last_body' = [last_body EXCEPT ![i] = r.body]
                /\ IF loop_breaks(r.status)
                   THEN /\ Leave(i, check_one_end(sites[i], username, SITES[sites[i]],
                                                  r.status, r.body))
                        /\ UNCHANGED backoffs
                   ELSE /\ pc' = [pc EXCEPT ![i] = "backoff"]
                        /\ backoffs' = [backoffs EXCEPT
                                          ![i] = Append(@, backoff_delay(attempt[i]))]
                        /\ UNCHANGED <<fetches, outcome, sem_value, waiters, gather_exc, overtaken>>
    /\ UNCHANGED <<sites, concurrency, retries, attempt, run_state, report>>
    /\ UNCHANGED call_vars

\* The backoff sleep of task i ends: attempt += 1, and the loop either calls
\* fetch again or is exhausted and check_one ends.
BackoffEnds(i) ==
    /\ run_state = "gathering"
    /\ pc[i] = "backoff"
    /\ attempt' = [attempt EXCEPT ![i] = @ + 1]
    /\ IF loop_continues(attempt[i] + 1, retries)
       THEN /\ pc' = [pc EXCEPT ![i] = "fetch"]
            /\ fetches' = [fetches EXCEPT ![i] = @ + 1]
            /\ UNCHANGED <<outcome, sem_value, waiters, gather_exc, overtaken>>
       ELSE Leave(i, check_one_end(sites[i], username, SITES[sites[i]],
                                   last_status[i], last_body[i]))
    /\ UNCHANGED <<sites, concurrency, retries, last_status, last_body, backoffs,
                   run_state, report>>
    /\ UNCHANGED call_vars

\* Every task has returned: gather gives the results, the session is closed
\* and run returns the report.
RunReturns ==
    /\ run_state = "gathering"
    /\ \A i \in Tasks : pc[i] = "done"
    /\ run_state' = "returned"
    /\ report' = Some([username |-> username, results |-> gather_results(outcome)])
    /\ UNCHANGED <<sites, concurrency, retries, pc, attempt, last_status, last_body,
                   fetches, backoffs, outcome, sem_value, waiters, gather_exc, overtaken>>
    /\ UNCHANGED call_vars

\* A task has raised: gather (return_exceptions is not set) raises the first
\* exception into run, which has no handler: run raises it.
RunRaises ==
    /\ run_state = "gathering"
    /\ gather_exc # None
    /\ run_state' = "raised"
    /\ report' = Some([raise |-> gather_exc])
    /\ UNCHANGED <<sites, concurrency, retries, pc, attempt, last_status, last_body,
                   fetches, backoffs, outcome, sem_value, waiters, gather_exc, overtaken>>
    /\ UNCHANGED call_vars

\* asyncio.run(run(...)) of main, once run has raised: the event loop stops
\* and the tasks still running are cancelled; each leaves `async with sem`
\* (or acquire) on the CancelledError, so every permit comes back.
CancelAll ==
    /\ run_state = "raised"
    /\ \E i \in Tasks : ~Finished(i)
    /\ pc' = [k \in Tasks |-> IF Finished(k) THEN pc[k] ELSE "cancelled"]
    /\ outcome' = [k \in Tasks |->
                     IF Finished(k) THEN outcome[k]
                     ELSE [kind |-> "cancelled", value |-> None]]
    /\ sem_value' = sem_value + Cardinality(Holders)
    /\ waiters' = <<>>
    /\ UNCHANGED <<sites, concurrency, retries, attempt, last_status, last_body,
                   fetches, backoffs, gather_exc, overtaken, run_state, report>>
    /\ UNCHANGED call_vars

Next ==
    \/ \E i \in Tasks : TaskStart(i)
    \/ \E i \in Tasks : \E ev \in NetEvents : FetchEnds(i, ev)
    \/ \E i \in Tasks : BackoffEnds(i)
    \/ RunReturns
    \/ RunRaises
    \/ CancelAll

Spec == Init /\ [][Next]_vars

----------------------------------------------------------------------------
(* The end of check_one called on its own, on any status, body and site     *)
(* configuration                                                           *)

CallStatuses == {0, 200, 301, 404, 500}
CallTexts == {<<>>, <<"N", "O">>, <<"o", "k">>, <<"k", "n", "O">>}
CallBodies == {NoBody} \cup {Some(t) : t \in CallTexts}
CallPatterns == {<<"n", "o">>, <<"k">>, <<"(">>}
CallStatusSets == {{200, 301, 302}, {404}, {}}

\* The rules dictionaries: empty, with either key, with both
CallRules ==
    {EmptyRules}
    \cup [status_in : CallStatusSets]
    \cup [body_regex : CallPatterns]
    \cup [status_in : CallStatusSets, body_regex : CallPatterns]

CallUrl == <<"x", "/", PLACEHOLDER>>

\* The site configurations: a url, and each of the two rules or none
CallConfigs ==
    {[url |-> CallUrl]}
    \cup [url : {CallUrl}, exists_if : CallRules]
    \cup [url : {CallUrl}, not_found_if : CallRules]
    \cup [url : {CallUrl}, exists_if : CallRules, not_found_if : CallRules]

InitCall ==
    /\ sites = <<>>
    /\ concurrency = 1
    /\ retries = 0
    /\ pc = <<>>
    /\ attempt = <<>>
    /\ last_status = <<>>
    /\ last_body = <<>>
    /\ fetches = <<>>
    /\ backoffs = <<>>
    /\ outcome = <<>>
    /\ sem_value = 1
    /\ waiters = <<>>
    /\ gather_exc = None
    /\ overtaken = FALSE
    /\ run_state = "idle"
    /\ report = Nothing
    /\ args \in {Some(a) : a \in [site : {"dummy"}, cfg : CallConfigs,
                                   status : CallStatuses, body : CallBodies]}
    /\ ret = Nothing

\* check_one from the end of its loop: the two rule evaluations, the
\* verdict and the result record
CheckOneEnds ==
    /\ args # Nothing
    /\ ret = Nothing
    /\ LET a == args[1]
       IN  ret' = Some([exists |-> decide_with_rules(a.status, a.body,
                                                     Get(a.cfg, "exists_if")),
                        not_found |-> decide_with_rules(a.status, a.body,
                                                        Get(a.cfg, "not_found_if")),
                        end |-> check_one_end(a.site, username, a.cfg,
                                              a.status, a.body)])
    /\ UNCHANGED <<args, run_vars>>

NextCall == CheckOneEnds

SpecCall == InitCall /\ [][NextCall]_vars

----------------------------------------------------------------------------
(* Properties of run, checked under Spec *)

\* A task whose probe raised (an exception of fetch or of a rule evaluation)
Faulted(i) == pc[i] = "raised"

RunEnded == run_state \in {"returned", "raised"}

\* C1: whatever the probes end with (a response, transport failures on all
\* attempts, an unexpected fault), run returns a report with exactly one
\* result per entry of the site list.
C1_OneResultPerSite ==
    RunEnded => /\ run_state = "returned"
                /\ Len(report[1].results) = Len(sites)

\* C2: the report run returns lists the results in the order of the site
\* list, one per entry: results[k].site = sites[k] for every k, whatever the
\* order in which the tasks finished.
C2_OrderPreserved ==
    run_state = "returned" =>
        /\ Len(report[1].results) = Len(sites)
        /\ \A k \in 1..Len(sites) : report[1].results[k].site = sites[k]

\* C2 happens: a report for two or more distinct sites, returned after a task
\* finished before one listed before it.
C2_Witness ==
    /\ run_state = "returned"
    /\ overtaken
    /\ Len(sites) >= 2
    /\ \A j, k \in 1..Len(sites) : j # k => sites[j] # sites[k]

\* C3: an unexpected fault of a probe becomes the result record of its site,
\* with the site, the description of the fault as error and no available,
\* and is never raised out of run.
C3_FaultBecomesRecord ==
    /\ \A i \in Tasks :
          Faulted(i) =>
              /\ outcome[i].kind = "result"
              /\ outcome[i].value.site = sites[i]
              /\ "error" \in DOMAIN outcome[i].value
              /\ "available" \notin DOMAIN outcome[i].value
    /\ run_state # "raised"

\* C4: when exactly one probe faults, the other probes are not stopped (none
\* is cancelled) and run returns a report instead of failing.
C4_FaultIsolated ==
    \A i \in Tasks :
        (Faulted(i) /\ \A j \in Tasks \ {i} : ~Faulted(j)) =>
            /\ run_state # "raised"
            /\ \A j \in Tasks \ {i} : pc[j] # "cancelled"

\* C5: at most `concurrency` tasks are inside the gate at any time; there is
\* exactly one task per entry of the site list, and a task makes no fetch
\* before it has acquired the gate.
C5_GateBound ==
    /\ Cardinality(Holders) <= concurrency
    /\ DOMAIN pc = 1..Len(sites)
    /\ \A i \in Tasks : pc[i] \in {"new", "waiting"} => fetches[i] = 0
    /\ \A i \in Tasks : pc[i] = "waiting" <=> \E k \in 1..Len(waiters) : waiters[k] = i

\* C5 happens: the gate is full and a task waits for it.
C5_Witness ==
    /\ Cardinality(Holders) = concurrency
    /\ waiters # <<>>

\* C6: free permits + tasks holding a permit = concurrency at all times, on
\* every exit path of a task; once every task has finished all the permits
\* are free; a task waits only while every permit is held by a running task.
C6_PermitsConserved ==
    /\ sem_value + Cardinality(Holders) = concurrency
    /\ (\A i \in Tasks : Finished(i)) => sem_value = concurrency
    /\ waiters # <<>> => Cardinality(Holders) = concurrency

\* C6 happens: every task has finished, one of them by raising while another
\* task was waiting for the gate, and a task that waited has run.
C6_Witness ==
    /\ Len(sites) > concurrency
    /\ \A i \in Tasks : Finished(i)
    /\ \E i \in Tasks : Faulted(i) /\ i <= concurrency
    /\ \E j \in Tasks : j > concurrency /\ fetches[j] > 0
    /\ sem_value = concurrency

\* C7: once a fetch of a probe has returned a non-zero status the probe makes
\* no further fetch: it has ended, and its fetches are the attempts that
\* returned 0 plus that one; a first attempt with a non-zero status is the
\* only one.
C7_RetryShortCircuit ==
    \A i \in Tasks :
        last_status[i] # 0 =>
            /\ pc[i] \in {"done", "raised"}
            /\ fetches[i] = attempt[i] + 1

\* C7 happens: with retries left, a probe ended on its first attempt, which
\* returned an HTTP error status.
C7_Witness ==
    \E i \in Tasks :
        /\ retries >= 1
        /\ pc[i] = "done"
        /\ last_status[i] = 500
        /\ fetches[i] = 1

\* C8: a probe makes at most retries + 1 fetches, and one whose fetches all
\* returned status 0 ends after exactly retries + 1 of them with status 0
\* and no verdict.
C8_RetryExhaustion ==
    \A i \in Tasks :
        /\ fetches[i] <= retries + 1
        /\ (pc[i] \in {"done", "raised"} /\ last_status[i] = 0
             /\ ~(outcome[i].kind = "exception" /\ outcome[i].value = "boom")) =>
               /\ fetches[i] = retries + 1
               /\ outcome[i].kind = "result"
               /\ outcome[i].value.status = 0
               /\ outcome[i].value.available = None

\* C8 happens: a probe with retries >= 1 has ended on transport failures only.
C8_Witness ==
    \E i \in Tasks :
        /\ retries >= 1
        /\ pc[i] = "done"
        /\ outcome[i].value.status = 0
        /\ fetches[i] = retries + 1

----------------------------------------------------------------------------
(* Properties of the rule evaluation and the verdict, checked under SpecCall *)

Called == ret # Nothing

StatusPreset == [status_in |-> {200, 301, 302}]

HasStatusSet(rules) == "status_in" \in DOMAIN rules
HasBodyPattern(rules) == "body_regex" \in DOMAIN rules

\* The pattern, read as a literal, occurs somewhere in the text, in any case
FoundIn(pat, text) ==
    \E from \in 1..(Len(text) + 1) : \E to \in 0..Len(text) :
        /\ to - from + 1 = Len(pat)
        /\ \A k \in 1..Len(pat) : Lower(text[from + k - 1]) = Lower(pat[k])

\* The decision table of the rule evaluator
RuleTable(status, body, rules) ==
    IF HasStatusSet(rules) /\ status \in rules.status_in THEN "True"
    ELSE IF body # NoBody /\ HasBodyPattern(rules) /\ FoundIn(rules.body_regex, body[1])
         THEN "True"
         ELSE None

\* C9: the available of the result is "False" exactly when the exists-rule
\* matched, "True" exactly when it did not and the not-found-rule matched,
\* and unset otherwise; with the preset rules ({200,301,302} exists, {404}
\* not found) 404 gives "True", 200 gives "False" and 500 gives unset with
\* status 500.
C9_Verdict ==
    (Called /\ ret[1].end.kind = "result") =>
        LET a == args[1]
            r == ret[1]
            available == r.end.value.available
        IN  /\ available = "False" <=> r.exists = "True"
            /\ available = "True" <=> (r.exists # "True" /\ r.not_found = "True")
            /\ available = None <=> (r.exists # "True" /\ r.not_found # "True")
            /\ r.end.value.status = a.status
            /\ (/\ DOMAIN a.cfg = {"url", "exists_if", "not_found_if"}
                /\ a.cfg.exists_if = StatusPreset
                /\ a.cfg.not_found_if = [status_in |-> {404}]) =>
                   /\ a.status = 404 => available = "True"
                   /\ a.status = 200 => available = "False"
                   /\ a.status = 500 => available = None

\* C9 happens: a response matched both rules and the verdict is "False".
C9_Witness ==
    /\ Called
    /\ ret[1].exists = "True"
    /\ ret[1].not_found = "True"
    /\ ret[1].end.kind = "result"
    /\ ret[1].end.value.available = "False"

\* The two evaluations of check_one: the value and the rules of each
Evaluations ==
    {[value |-> ret[1].exists, rules |-> Get(args[1].cfg, "exists_if")],
     [value |-> ret[1].not_found, rules |-> Get(args[1].cfg, "not_found_if")]}

\* C10: an evaluation of a rule whose body pattern is a regular expression
\* gives what the decision table gives: a match when the status set is
\* present and holds the status, else a match when body and pattern are
\* present and the pattern is found anywhere in the body, else no match; a
\* rule with neither field never matches, and the rule {200,301,302} with no
\* pattern matches 200 and not 404.
C10_DecisionTable ==
    Called =>
        \A e \in Evaluations :
            /\ e.value # RE_ERROR =>
                  e.value = RuleTable(args[1].status, args[1].body, e.rules)
            /\ (~HasStatusSet(e.rules) /\ ~HasBodyPattern(e.rules)) => e.value = None
            /\ e.rules = StatusPreset =>
                  /\ args[1].status = 200 => e.value = "True"
                  /\ args[1].status = 404 => e.value = None

\* C10 happens: the status is not in the status set of the rule and its
\* pattern is found in the body, not at its start and in another case.
C10_Witness ==
    /\ Called
    /\ args[1].status = 404
    /\ args[1].body = Some(<<"k", "n", "O">>)
    /\ "exists_if" \in DOMAIN args[1].cfg
    /\ args[1].cfg.exists_if = [status_in |-> {200, 301, 302}, body_regex |-> <<"n", "o">>]
    /\ ret[1].exists = "True"

\* C11: a body pattern that does not compile never makes a rule evaluation
\* raise: the rule counts as not matched and check_one still ends with a
\* result record.
C11_MalformedPatternNotMatched ==
    Called =>
        /\ \A e \in Evaluations :
              (HasBodyPattern(e.rules) /\ ~re_compiles(e.rules.body_regex)) =>
                  e.value \in {"True", None}
        /\ ret[1].end.kind = "result"

----------------------------------------------------------------------------
(* Properties of the retry loop, checked under Spec *)

\* The k-th backoff sleep of a probe lasts 0.4 * k seconds
BackoffDurations(i) ==
    \A k \in 1..Len(backoffs[i]) : backoffs[i][k] = 4 * k

\* C12: a probe sleeps a backoff only after an attempt that returned status
\* 0 and only when another attempt remains; the k-th sleep lasts 0.4 * k
\* seconds; no sleep follows the terminating attempt, so the backoff sleeps
\* are one fewer than the fetches.
C12_BackoffBetweenAttemptsOnly ==
    \A i \in Tasks :
        /\ BackoffDurations(i)
        /\ pc[i] = "backoff" => (last_status[i] = 0 /\ attempt[i] < retries)
        /\ pc[i] = "fetch" => Len(backoffs[i]) = fetches[i] - 1
        /\ pc[i] \in {"done", "raised"} => Len(backoffs[i]) = fetches[i] - 1

----------------------------------------------------------------------------
(* fetch called on its own, on any outcome of the GET *)

\* No run is going on: the variables of run while a function is called on
\* its own
NoRun ==
    /\ sites = <<>>
    /\ concurrency = 1
    /\ retries = 0
    /\ pc = <<>>
    /\ attempt = <<>>
    /\ last_status = <<>>
    /\ last_body = <<>>
    /\ fetches = <<>>
    /\ backoffs = <<>>
    /\ outcome = <<>>
    /\ sem_value = 1
    /\ waiters = <<>>
    /\ gather_exc = None
    /\ overtaken = FALSE
    /\ run_state = "idle"
    /\ report = Nothing

\* A text of n characters, the last one unlike the others
LongText(n) == [k \in 1..n |-> IF k = n THEN "z" ELSE "a"]

FetchStatuses == {200, 201, 204, 301, 404, 500, 503}
FetchSizes == {0, 1, 2, BODY_CAP - 1, BODY_CAP, BODY_CAP + 1, BODY_CAP + 2}

\* The outcomes of a GET: a failure of the connection; a status with the
\* size of the text the server sends after it; a status after which reading
\* fails
FetchEvents ==
    [conn : Failures, status : {0}, read : {"ok"}, size : {0}]
    \cup [conn : {"ok"}, status : FetchStatuses, read : {"ok"}, size : FetchSizes]
    \cup [conn : {"ok"}, status : FetchStatuses, read : Failures, size : {0}]

\* The text resp.text() yields in the outcome e
ReceivedText(e) == LongText(e.size)

\* What the caller sees of the tuple r fetch returned for the text received:
\* the status, whether there is a body, its length, and whether it is the
\* beginning of the text
Observed(r, text) ==
    [raise |-> r.raise,
     status |-> r.status,
     body_present |-> r.body # NoBody,
     body_len |-> IF r.body = NoBody THEN 0 ELSE Len(r.body[1]),
     body_is_prefix |->
        \/ r.body = NoBody
        \/ /\ Len(r.body[1]) <= Len(text)
           /\ r.body[1] = SubSeq(text, 1, Len(r.body[1]))]

InitFetch ==
    /\ NoRun
    /\ args \in {Some([ev |-> e]) : e \in FetchEvents}
    /\ ret = Nothing

\* fetch(session, url, timeout) returns or raises
FetchCalled ==
    /\ args # Nothing
    /\ ret = Nothing
    /\ LET e == args[1].ev
           text == ReceivedText(e)
       IN  ret' = Some(Observed(fetch([conn |-> e.conn, status |-> e.status,
                                       read |-> e.read, text |-> text]),
                                text))
    /\ UNCHANGED <<args, run_vars>>

NextFetch == FetchCalled

SpecFetch == InitFetch /\ [][NextFetch]_vars

----------------------------------------------------------------------------
(* Properties of fetch, checked under SpecFetch *)

\* asyncio.TimeoutError and aiohttp.ClientError: the timeout and the
\* transport-level errors of an attempt
TransportFailures == {"timeout", "client_error"}

\* The GET met a transport failure, on the connection or while the body of
\* a 200 was read
TransportFailed(ev) ==
    \/ ev.conn \in TransportFailures
    \/ ev.conn = "ok" /\ ev.status = 200 /\ ev.read \in TransportFailures

\* C13: fetch turns every timeout and every transport-level error of the
\* attempt, on the connection or while reading the body of a 200, into the
\* outcome (0, no body) and does not raise.
C13_TransportFailureIsStatusZero ==
    (Called /\ TransportFailed(args[1].ev)) =>
        /\ ret[1].raise = None
        /\ ret[1].status = 0
        /\ ~ret[1].body_present

\* C13 happens: reading the body of a 200 met a client error and fetch
\* returned status 0.
C13_Witness ==
    /\ Called
    /\ args[1].ev.conn = "ok"
    /\ args[1].ev.status = 200
    /\ args[1].ev.read = "client_error"
    /\ ret[1].raise = None
    /\ ret[1].status = 0

\* C14: in every outcome fetch returns the body is present only with status
\* 200 and absent with every other status, 0 included; a present body is the
\* beginning of the received text, the whole of it up to 200,000 characters
\* and never more than 200,000 characters.
C14_BodyOnly200AndCapped ==
    (Called /\ ret[1].raise = None) =>
        /\ ret[1].body_present => ret[1].status = 200
        /\ ret[1].status # 200 => ~ret[1].body_present
        /\ ret[1].body_present =>
              /\ ret[1].body_len <= 200000
              /\ ret[1].body_is_prefix
              /\ args[1].ev.size <= 200000 => ret[1].body_len = args[1].ev.size

\* C14 happens: the text of a 200 had more than 200,000 characters and the
\* body returned has 200,000.
C14_Witness ==
    /\ Called
    /\ ret[1].raise = None
    /\ args[1].ev.size > 200000
    /\ ret[1].body_present
    /\ ret[1].body_len = 200000

----------------------------------------------------------------------------
(* pretty_print called on its own, on reports with and without error records *)

KEY_ERROR == "KeyError"

\* The state column of a row
state_label(available) ==
    IF available = "True" THEN "DISPONIBLE"
    ELSE IF available = "False" THEN "PRIS"
    ELSE "INCONNU"

\* The loop over data["results"]: the rows printed, and the KeyError of the
\* first record that lacks a key the loop reads
RECURSIVE print_rows(_)
print_rows(results) ==
    IF results = <<>> THEN [raise |-> None, out |-> <<>>]
    ELSE LET r == Head(results)
         IN  IF ~({"available", "site", "status", "url"} \subseteq DOMAIN r)
             THEN [raise |-> KEY_ERROR, out |-> <<>>]
             ELSE LET rest == print_rows(Tail(results))
                      row == [kind |-> "row", site |-> r.site,
                              state |-> state_label(r.available),
                              status |-> r.status, url |-> r.url]
                  IN  [raise |-> rest.raise, out |-> <<row>> \o rest.out]

\* pretty_print(data): what it raises and the lines it has printed
pretty_print(data) ==
    LET rows == print_rows(data.results)
        head == <<[kind |-> "rule"],
                  [kind |-> "title", username |-> data.username],
                  [kind |-> "rule"]>>
    IN  [raise |-> rows.raise,
         out |-> head \o rows.out
                 \o (IF rows.raise = None THEN <<[kind |-> "rule"]>> ELSE <<>>)]

\* The records of a report: the results of check_one, and the records of a
\* faulted probe that carry site and error
PrintedResults ==
    [site : {"github", "dummy"}, url : {<<"g", "/", "u", "s", "r">>},
     status : {0, 200, 404}, available : {"True", "False", None}]
ErrorRecords == [site : {"github", "dummy"}, error : {"boom"}]
PrintedRecords == PrintedResults \cup ErrorRecords
Reports ==
    [username : {username},
     results : {<<>>} \cup {<<a>> : a \in PrintedRecords}
               \cup {<<a, b>> : a \in ErrorRecords \cup {CHOOSE r \in PrintedResults : TRUE},
                                b \in PrintedRecords}]

InitPrint ==
    /\ NoRun
    /\ args \in {Some([data |-> d]) : d \in Reports}
    /\ ret = Nothing

\* pretty_print(data) returns or raises
PrettyPrintCalled ==
    /\ args # Nothing
    /\ ret = Nothing
    /\ ret' = Some(pretty_print(args[1].data))
    /\ UNCHANGED <<args, run_vars>>

NextPrint == PrettyPrintCalled

SpecPrint == InitPrint /\ [][NextPrint]_vars

----------------------------------------------------------------------------
(* Properties of pretty_print, checked under SpecPrint *)

\* The printed line l shows the error of the record r: it is about r's site
\* and carries the error's description or an error marker
ShowsError(l, r) ==
    /\ l.kind = "row"
    /\ l.site = r.site
    /\ \/ l.state = "ERREUR"
       \/ "error" \in DOMAIN l /\ l.error = r.error

\* C15: pretty_print completes without raising on every report, those with
\* records that carry site and error included, and its output shows the
\* error of each such record.
C15_RendererAcceptsErrorRecords ==
    Called =>
        /\ ret[1].raise = None
        /\ \A k \in 1..Len(args[1].data.results) :
              LET r == args[1].data.results[k]
              IN  "error" \in DOMAIN r =>
                     \E n \in 1..Len(ret[1].out) : ShowsError(ret[1].out[n], r)

----------------------------------------------------------------------------
(* Properties of the result of a probe, checked under Spec *)

\* The url of each site of the catalog for the username "usr"
ResolvedUrl ==
    [name \in SiteNames |->
       CASE name = "github" -> <<"g", "/", "u", "s", "r">>
         [] name = "forum"  -> <<"f", "/", "u", "s", "r">>
         [] name = "wiki"   -> <<"u", "s", "r", ".", "w">>]

\* The verdict the rules of the site give on a response
ResolvedVerdict(site, status, body) ==
    IF RuleTable(status, body, SITES[site].exists_if) = "True" THEN "False"
    ELSE IF RuleTable(status, body, SITES[site].not_found_if) = "True" THEN "True"
    ELSE None

\* Probe i has returned a result
HasResult(i) == pc[i] = "done" /\ outcome[i].kind = "result"

\* C16: the result of a probe has the status of its last fetch, the verdict
\* the rules give on the status and body of that last fetch, and the url
\* template with the username substituted; two probes of the same site whose
\* last fetches returned the same response have the same result, whatever
\* number of failed attempts came before.
C16_ResultFromLastAttempt ==
    \A i \in Tasks :
        HasResult(i) =>
            /\ outcome[i].value.site = sites[i]
            /\ outcome[i].value.status = last_status[i]
            /\ outcome[i].value.available =
                  ResolvedVerdict(sites[i], last_status[i], last_body[i])
            /\ outcome[i].value.url = ResolvedUrl[sites[i]]
            /\ \A j \in Tasks :
                  (/\ HasResult(j)
                   /\ sites[j] = sites[i]
                   /\ last_status[j] = last_status[i]
                   /\ last_body[j] = last_body[i]) =>
                      outcome[j].value = outcome[i].value

\* C16 happens: a probe got a 404 at its first attempt and another probe of
\* the same site got it after a transport failure, and both have the result
\* of the 404.
C16_Witness ==
    \E i, j \in Tasks :
        /\ HasResult(i) /\ HasResult(j)
        /\ sites[i] = sites[j]
        /\ fetches[i] = 1
        /\ fetches[j] = 2 /\ Len(backoffs[j]) = 1
        /\ last_status[i] = 404 /\ last_status[j] = 404
        /\ outcome[j].value.status = 404
        /\ outcome[j].value.available = "True"
        /\ outcome[j].value = outcome[i].value

----------------------------------------------------------------------------
(* main, up to the call of run *)

\* The characters of the model that the class [a-zA-Z0-9_\-.] holds
AllowedChars == {"a", "Z", "7", "_", "-", "."}
LF == "\n"
Whitespace == {" ", LF}

\* USERNAME_ALLOWED.match(text) for ^[a-zA-Z0-9_\-.]{1,30}$: between 1 and
\* 30 characters of the class from the start, up to a place where $ matches,
\* which is the end of the text or a line feed that ends the text.
USERNAME_ALLOWED_match(text) ==
    \E n \in 1..30 :
        /\ n <= Len(text)
        /\ \A k \in 1..n : text[k] \in AllowedChars
        /\ \/ n = Len(text)
           \/ n = Len(text) - 1 /\ text[Len(text)] = LF

\* str.strip(): the text without its leading and trailing whitespace
RECURSIVE strip(_)
strip(text) ==
    IF text = <<>> THEN text
    ELSE IF Head(text) \in Whitespace THEN strip(Tail(text))
    ELSE IF text[Len(text)] \in Whitespace THEN strip(SubSeq(text, 1, Len(text) - 1))
    ELSE text

\* list(SITES.keys()): the names of a table, each once
RECURSIVE keys(_)
keys(table) ==
    IF table = {} THEN <<>>
    ELSE LET first == CHOOSE name \in table : TRUE
         IN  <<first>> \o keys(table \ {first})

\* The names of FALLBACK_SITES and of the catalogs a data.json can hold
FALLBACK_NAMES == {"github", "x"}
CatalogNames == {"forum", "wiki"}
AllNames == FALLBACK_NAMES \cup CatalogNames

\* What reading a catalog file gives: no file, an exception of
\* load_sherlock_sites, or the table loaded (empty or not)
CatalogReads ==
    {[state |-> "absent"], [state |-> "raises"]}
    \cup [state : {"loaded"}, names : SUBSET CatalogNames]

\* The names SITES.update(loaded) puts into the table after a read
loaded_names(read) == IF read.state = "loaded" THEN read.names ELSE {}

\* main(argv) up to line 394: the exit code of an early return, or the
\* arguments of the call of run; `table` is the names of SITES at that point
main(m) ==
    LET uname == IF m.username # <<>> THEN m.username ELSE strip(m.typed)
        from_file == IF m.no_auto THEN {} ELSE loaded_names(m.catalog_file)
        from_cache == IF ~m.no_auto /\ from_file = {}
                      THEN loaded_names(m.cache)
                      ELSE from_file
        table == IF from_cache = {} THEN FALLBACK_NAMES ELSE from_cache
    IN  IF ~USERNAME_ALLOWED_match(uname)
        THEN [code |-> Some(2), run |-> Nothing, table |-> {}, username |-> uname]
        ELSE IF m.sites = Nothing \/ Len(m.sites[1]) = 0
        THEN [code |-> Nothing, table |-> table, username |-> uname,
              run |-> Some([username |-> uname, sites |-> keys(table)])]
        ELSE IF \E k \in 1..Len(m.sites[1]) : m.sites[1][k] \notin table
        THEN [code |-> Some(2), run |-> Nothing, table |-> table, username |-> uname]
        ELSE [code |-> Nothing, table |-> table, username |-> uname,
              run |-> Some([username |-> uname, sites |-> m.sites[1]])]

\* The usernames of the command line (empty when none is given) and the
\* lines typed at the prompt
ArgUsernames ==
    {<<>>, <<"a">>, <<"a", ".">>, <<"Z", "_", "7">>, <<"a", "!">>, <<"!">>,
     <<" ", "a">>, <<"a", LF>>, <<LF>>, <<"a", LF, "a">>,
     [k \in 1..30 |-> "a"], [k \in 1..31 |-> "a"],
     [k \in 1..31 |-> IF k = 31 THEN LF ELSE "a"]}
TypedLines == {<<>>, <<" ", "a", " ">>, <<"a", "!">>, <<"-">>}
ArgSites ==
    {Nothing, Some(<<>>)}
    \cup {Some(<<a>>) : a \in AllNames}
    \cup {Some(<<a, b>>) : a \in {"github", "forum"}, b \in AllNames}

MainInputs ==
    [username : ArgUsernames, typed : TypedLines, no_auto : BOOLEAN,
     catalog_file : CatalogReads,
     cache : {[state |-> "absent"], [state |-> "raises"],
              [state |-> "loaded", names |-> {}],
              [state |-> "loaded", names |-> {"wiki"}]},
     sites : ArgSites]

InitMain ==
    /\ NoRun
    /\ args \in {Some(m) : m \in MainInputs}
    /\ ret = Nothing

\* main(argv) returns 2 or calls run
MainCalled ==
    /\ args # Nothing
    /\ ret = Nothing
    /\ ret' = Some(main(args[1]))
    /\ UNCHANGED <<args, run_vars>>

NextMain == MainCalled

SpecMain == InitMain /\ [][NextMain]_vars

----------------------------------------------------------------------------
(* Properties of main, checked under SpecMain *)

\* A username is valid when it has 1 to 30 characters, all of them letters,
\* digits, "_", "-" or "."
ValidUsername(text) ==
    /\ Len(text) \in 1..30
    /\ \A k \in 1..Len(text) : text[k] \in AllowedChars

\* The sites asked for on the command line
Requested(m) == IF m.sites = Nothing THEN <<>> ELSE m.sites[1]

\* C17: main calls run only with sites that are all in the table SITES,
\* which is not empty then (the built-in preset when nothing was loaded);
\* when the username is invalid, or a requested site is not in the table,
\* main returns 2 and does not call run.
C17_CallerValidation ==
    Called =>
        LET m == args[1]
            r == ret[1]
        IN  /\ r.run # Nothing =>
                  /\ r.table # {}
                  /\ Len(r.run[1].sites) >= 1
                  /\ \A k \in 1..Len(r.run[1].sites) : r.run[1].sites[k] \in r.table
                  /\ (m.no_auto \/ (loaded_names(m.catalog_file) = {}
                                    /\ loaded_names(m.cache) = {})) =>
                         r.table = FALLBACK_NAMES
            /\ (\E k \in 1..Len(Requested(m)) : Requested(m)[k] \notin r.table) =>
                  (r.code = Some(2) /\ r.run = Nothing)
            /\ ~ValidUsername(r.username) => (r.code = Some(2) /\ r.run = Nothing)

----------------------------------------------------------------------------
(* run under fair scheduling: the event loop runs every task that is ready, *)
(* every fetch ends (it is bounded by the timeout), every sleep ends        *)

Fairness ==
    /\ \A i \in 1..MaxSites : WF_vars(i \in Tasks /\ TaskStart(i))
    /\ \A i \in 1..MaxSites :
          WF_vars(i \in Tasks /\ \E ev \in NetEvents : FetchEnds(i, ev))
    /\ \A i \in 1..MaxSites : WF_vars(i \in Tasks /\ BackoffEnds(i))
    /\ WF_vars(RunReturns)
    /\ WF_vars(RunRaises)
    /\ WF_vars(CancelAll)

SpecFair == Spec /\ Fairness

----------------------------------------------------------------------------
(* Properties of the termination of run, checked under SpecFair *)

\* A fetch of probe i has raised instead of returning
FetchRaised(i) == outcome[i].kind = "exception" /\ outcome[i].value \in Failures

\* C18: as long as every fetch returns, no probe is lost: none raises, none
\* is cancelled while it waits for the gate or holds it, each makes at most
\* retries + 1 fetches, and run does not end otherwise than by returning.
C18_EveryProbeCompletes ==
    (\A i \in Tasks : ~FetchRaised(i)) =>
        /\ \A i \in Tasks : pc[i] \notin {"raised", "cancelled"}
        /\ \A i \in Tasks : fetches[i] <= retries + 1
        /\ run_state # "raised"

----------------------------------------------------------------------------
(* Properties of the sites with a body pattern, checked under Spec *)

\* The site has the shape of a Sherlock entry with errorType "message"
IsMessageSite(name) ==
    /\ SITES[name].exists_if = StatusPreset
    /\ DOMAIN SITES[name].not_found_if = {"body_regex"}

====
